---- MODULE Spec2Model ----
(***************************************************************************)
(* Model of github.com/KarpelesLab/ini: the Ini document (a map of         *)
(* sections to maps of keys to values), its accessors Get/Set/Unset, the   *)
(* line parser ReadFrom, the serializer WriteTo/writeSection, the listings *)
(* Sections/Keys, and the IniSafe wrapper that guards one document with a  *)
(* sync.RWMutex.                                                           *)
(*                                                                         *)
(* A Go string is modelled as a sequence of characters; a character is a   *)
(* one-character TLA+ string, except the vertical tab, which TLA+ cannot   *)
(* write and which is the token VT below.  A Go map is a function whose    *)
(* DOMAIN is the set of keys present.                                      *)
(***************************************************************************)
EXTENDS Integers, Sequences, FiniteSets, TLC

VARIABLES
    i,        \* the Document under test (ini1 of the tests)
    buf,      \* the bytes.Buffer the last WriteTo wrote into
    i2,       \* the Document the buffer is parsed back into (ini2)
    op,       \* name of the last operation called
    section,  \* section argument of the last Set/Unset
    key,      \* key argument of the last Set/Unset
    value,    \* value argument of the last Set
    src,      \* the text of the last parse, or the input chosen for the run
              \* (empty after a Set or Unset call made in any order)
    pre,      \* the Document i as it was before the last operation
    ret,      \* what the last operation returned
    pc,       \* position of the test driver
    mu,       \* the sync.RWMutex of the IniSafe wrapper
    th,       \* the callers of the IniSafe wrapper: their call and position
    serial    \* the Document the calls give when made one at a time, in
              \* the order in which they acquired the lock

vars == <<i, buf, i2, op, section, key, value, src, pre, ret, pc, mu, th, serial>>

\* the state of the IniSafe wrapper besides its Document
safe == <<mu, th, serial>>

----------------------------------------------------------------------------
(* Characters *)

SP  == " "
TAB == "\t"
LF  == "\n"
CR  == "\r"
FF  == "\f"
VT  == "<VT>"
DQ  == "\""
SQ  == "'"
BS  == "\\"
EQ  == "="

\* unicode.IsSpace restricted to the characters of the model
IsSpace(c) == c \in {SP, TAB, LF, CR, VT, FF}

\* unicode.ToLower on the upper-case letters the model uses
LowerOf == ("A" :> "a") @@ ("K" :> "k") @@ ("O" :> "o") @@ ("R" :> "r")
               @@ ("S" :> "s") @@ ("T" :> "t") @@ ("W" :> "w")

ToLowerChar(c) == IF c \in DOMAIN LowerOf THEN LowerOf[c] ELSE c

----------------------------------------------------------------------------
(* The functions of package strings the source calls *)

ToLowerNoop(s) == s

ToLower(s) == [n \in 1..Len(s) |-> ToLowerChar(s[n])]

\* s[a:b] of Go with 1-based inclusive bounds; empty when a > b
Slice(s, a, b) == IF a > b THEN <<>> ELSE SubSeq(s, a, b)

RECURSIVE TrimLeft(_)
TrimLeft(s) ==
    IF s = <<>> THEN <<>>
    ELSE IF IsSpace(Head(s)) THEN TrimLeft(Tail(s)) ELSE s

RECURSIVE TrimRight(_)
TrimRight(s) ==
    IF s = <<>> THEN <<>>
    ELSE IF IsSpace(s[Len(s)]) THEN TrimRight(Slice(s, 1, Len(s) - 1)) ELSE s

TrimSpace(s) == TrimRight(TrimLeft(s))

\* strings.IndexByte: 1-based index of the first c in s, 0 when absent
\* (Go returns the 0-based index, and -1 when absent)
RECURSIVE IndexFrom(_, _, _)
IndexFrom(s, c, n) ==
    IF n > Len(s) THEN 0
    ELSE IF s[n] = c THEN n ELSE IndexFrom(s, c, n + 1)

RECURSIVE LastIndexFrom(_, _, _)
LastIndexFrom(s, c, n) ==
    IF n < 1 THEN 0
    ELSE IF s[n] = c THEN n ELSE LastIndexFrom(s, c, n - 1)

IndexByteLast(s, c) == LastIndexFrom(s, c, Len(s))

IndexByte(s, c) == IndexFrom(s, c, 1)

ContainsAny(s, chars) == \E n \in 1..Len(s) : s[n] \in chars

ContainsRune(s, c) == \E n \in 1..Len(s) : s[n] = c

----------------------------------------------------------------------------
(* The Document: type Ini map[string]map[string]string *)

New == <<>>

root == <<"r", "o", "o", "t">>

\* all (section, key) pairs stored in doc
Entries(doc) == UNION {{<<s, k>> : k \in DOMAIN doc[s]} : s \in DOMAIN doc}

\* m[k] = v on a Go map
MapPut(m, k, v) == [x \in DOMAIN m \cup {k} |-> IF x = k THEN v ELSE m[x]]

\* delete(m, k) on a Go map
MapDelete(m, k) == [x \in DOMAIN m \ {k} |-> m[x]]

NotFound == [value |-> <<>>, ok |-> FALSE]

GetExact(doc, s, k) ==
    IF s \notin DOMAIN doc THEN NotFound
    ELSE IF k \notin DOMAIN doc[s] THEN NotFound
    ELSE [value |-> doc[s][k], ok |-> TRUE]

Get(doc, s, k) ==
    LET ls == ToLower(s)
        lk == ToLower(k)
    IN  IF ls \notin DOMAIN doc THEN NotFound
        ELSE IF lk \notin DOMAIN doc[ls] THEN NotFound
        ELSE [value |-> doc[ls][lk], ok |-> TRUE]

SetNoLowerKey(doc, s, k, v) ==
    LET ls == ToLower(s)
        m  == IF ls \in DOMAIN doc THEN doc[ls] ELSE <<>>
    IN  MapPut(doc, ls, MapPut(m, k, v))

Set(doc, s, k, v) ==
    LET ls == ToLower(s)
        lk == ToLower(k)
        m  == IF ls \in DOMAIN doc THEN doc[ls] ELSE <<>>
    IN  MapPut(doc, ls, MapPut(m, lk, v))

UnsetKeepEmpty(doc, s, k) ==
    LET ls == ToLower(s)
        lk == ToLower(k)
    IN  IF ls \notin DOMAIN doc THEN doc
        ELSE MapPut(doc, ls, MapDelete(doc[ls], lk))

UnsetWholeSection(doc, s, k) ==
    LET ls == ToLower(s)
    IN  IF ls \notin DOMAIN doc THEN doc ELSE MapDelete(doc, ls)

Unset(doc, s, k) ==
    LET ls == ToLower(s)
        lk == ToLower(k)
    IN  IF ls \notin DOMAIN doc THEN doc
        ELSE LET m == MapDelete(doc[ls], lk)
             IN  IF DOMAIN m = {} THEN MapDelete(doc, ls)
                 ELSE MapPut(doc, ls, m)

HasSection(doc, s) == ToLower(s) \in DOMAIN doc

----------------------------------------------------------------------------
(* The parser: Ini.ReadFrom *)

ErrNone         == "nil"
ErrEmptySection == "empty section name"
ErrMissingEq    == "invalid format, missing '='"
ErrEmptyKey     == "empty key name"

\* bufio.ScanLines drops one trailing carriage return of a line
DropCR(line) ==
    IF line # <<>> /\ line[Len(line)] = CR THEN Slice(line, 1, Len(line) - 1)
    ELSE line

\* the lines r.Scan()/r.Text() yield: the text split at each line feed; a
\* last line that has no line feed is a line when it is not empty
RECURSIVE ScanLines(_)
ScanLines(text) ==
    IF text = <<>> THEN <<>>
    ELSE LET p == IndexByte(text, LF)
         IN  IF p = 0 THEN <<DropCR(text)>>
             ELSE <<DropCR(Slice(text, 1, p - 1))>>
                      \o ScanLines(Slice(text, p + 1, Len(text)))

UnescapeAnyQuote(c, quote) ==
    CASE c = "n" -> <<LF>>
      [] c = "r" -> <<CR>>
      [] c = "t" -> <<TAB>>
      [] c = BS  -> <<BS>>
      [] c \in {DQ, SQ} -> <<c>>
      [] OTHER   -> <<BS, c>>

\* what one character after a backslash decodes to
UnescapeChar(c, quote) ==
    CASE c = "n" -> <<LF>>
      [] c = "r" -> <<CR>>
      [] c = "t" -> <<TAB>>
      [] c = BS  -> <<BS>>
      [] c \in {DQ, SQ} -> IF c = quote THEN <<c>> ELSE <<BS, c>>
      [] OTHER   -> <<BS, c>>

\* the escape loop over the text between the quotes
RECURSIVE Unescape(_, _, _)
Unescape(s, quote, escape) ==
    IF s = <<>> THEN (IF escape THEN <<BS>> ELSE <<>>)
    ELSE LET c == Head(s)
         IN  IF escape THEN UnescapeChar(c, quote) \o Unescape(Tail(s), quote, FALSE)
             ELSE IF c = BS THEN Unescape(Tail(s), quote, TRUE)
             ELSE <<c>> \o Unescape(Tail(s), quote, FALSE)

\* the condition under which the surrounding quotes are removed
IsQuotedAnyPair(v) ==
    Len(v) >= 2 /\ v[1] \in {DQ, SQ} /\ v[Len(v)] \in {DQ, SQ}

IsQuoted(v) ==
    Len(v) >= 2 /\ (  (v[1] = DQ /\ v[Len(v)] = DQ)
                   \/ (v[1] = SQ /\ v[Len(v)] = SQ))

\* "Handle quotes and escape sequences"
ParseValue(v) ==
    IF IsQuoted(v)
    THEN LET quote == v[1]
             inner == Slice(v, 2, Len(v) - 1)
         IN  IF ContainsRune(inner, BS) THEN Unescape(inner, quote, FALSE)
             ELSE inner
    ELSE v

IsHeader(line) ==
    Len(line) >= 2 /\ line[1] = "[" /\ line[Len(line)] = "]"

StoreFirstWins(doc, sect, k, v) ==
    IF sect \in DOMAIN doc /\ k \in DOMAIN doc[sect] THEN doc
    ELSE LET m == IF sect \in DOMAIN doc THEN doc[sect] ELSE <<>>
         IN  MapPut(doc, sect, MapPut(m, k, v))

\* the lazily created sectionMap of the loop is i[section] itself (a Go map
\* is a reference), so an assignment through it is an assignment to the
\* Document
StoreParsed(doc, sect, k, v) ==
    LET m == IF sect \in DOMAIN doc THEN doc[sect] ELSE <<>>
    IN  MapPut(doc, sect, MapPut(m, k, v))

FailureZeroBased(doc, e, lineNum, n) ==
    [doc |-> doc, err |-> e, line |-> lineNum - 1, n |-> n]

\* return bytesRead, fmt.Errorf("line %d: ...", lineNum): the Document keeps
\* what was stored so far
Failure(doc, e, lineNum, n) ==
    [doc |-> doc, err |-> e, line |-> lineNum, n |-> n]

CommentCharsSemicolon == {";"}

\* the characters that begin a comment line
CommentChars == {";", "#"}

\* the body of the scan loop from line number lineNum on; sect is the
\* current section and bytesRead the running count
RECURSIVE ReadLoop(_, _, _, _, _)
ReadLoop(doc, lines, lineNum, sect, bytesRead) ==
    IF lineNum > Len(lines)
    THEN [doc |-> doc, err |-> ErrNone, line |-> 0, n |-> bytesRead]
    ELSE
      LET raw  == lines[lineNum]
          nb   == bytesRead + Len(raw) + 1
          line == TrimSpace(raw)
          Fail(e) == Failure(doc, e, lineNum, nb)
      IN  IF Len(line) = 0 THEN ReadLoop(doc, lines, lineNum + 1, sect, nb)
          ELSE IF line[1] \in CommentChars
               THEN ReadLoop(doc, lines, lineNum + 1, sect, nb)
          ELSE IF IsHeader(line)
               THEN LET name == ToLower(TrimSpace(Slice(line, 2, Len(line) - 1)))
                    IN  IF name = <<>> THEN Fail(ErrEmptySection)
                        ELSE ReadLoop(doc, lines, lineNum + 1, name, nb)
          ELSE LET pos == IndexByte(line, EQ)
               IN  IF pos = 0 THEN Fail(ErrMissingEq)
                   ELSE LET k == ToLower(TrimSpace(Slice(line, 1, pos - 1)))
                            v == TrimSpace(Slice(line, pos + 1, Len(line)))
                        IN  IF k = <<>> THEN Fail(ErrEmptyKey)
                            ELSE ReadLoop(StoreParsed(doc, sect, k, ParseValue(v)),
                                          lines, lineNum + 1, sect, nb)

ReadFromAllOrNothing(doc, source) ==
    LET r == ReadLoop(doc, ScanLines(source), 1, root, 0)
    IN  IF r.err = ErrNone THEN r ELSE [r EXCEPT !.doc = doc]

ReadFrom(doc, source) == ReadLoop(doc, ScanLines(source), 1, root, 0)

\* the current section after the loop has accepted the line raw in section sect
SectionAfter(sect, raw) ==
    LET line == TrimSpace(raw)
    IN  IF Len(line) > 0 /\ line[1] \notin CommentChars /\ IsHeader(line)
        THEN ToLower(TrimSpace(Slice(line, 2, Len(line) - 1)))
        ELSE sect

----------------------------------------------------------------------------
(* The serializer: Ini.WriteTo and Ini.writeSection *)

QuoteCharsOld == {SP, TAB, LF, CR}

QuoteCharsNoBracket == {SP, TAB, LF, CR, DQ, SQ, EQ, ";", "#"}

\* the characters whose presence makes writeSection quote a value
QuoteChars == {SP, TAB, LF, CR, DQ, SQ, EQ, ";", "#", "[", "]"}

EscapeChar(c) ==
    CASE c = DQ  -> <<BS, DQ>>
      [] c = BS  -> <<BS, BS>>
      [] c = LF  -> <<BS, "n">>
      [] c = CR  -> <<BS, "r">>
      [] c = TAB -> <<BS, "t">>
      [] OTHER   -> <<c>>

RECURSIVE Escape(_)
Escape(v) == IF v = <<>> THEN <<>> ELSE EscapeChar(Head(v)) \o Escape(Tail(v))

\* one "key=value\n" line of writeSection
WriteKV(k, v) ==
    LET needsQuotes == ContainsAny(v, QuoteChars)
    IN  k \o <<EQ>>
          \o (IF needsQuotes THEN <<DQ>> \o Escape(v) \o <<DQ>> ELSE v)
          \o <<LF>>

\* the orders in which a range over a Go map may visit the keys S
RECURSIVE Orders(_)
Orders(S) ==
    IF S = {} THEN {<<>>}
    ELSE UNION {{<<x>> \o p : p \in Orders(S \ {x})} : x \in S}

RECURSIVE WriteKeys(_, _)
WriteKeys(m, order) ==
    IF order = <<>> THEN <<>>
    ELSE WriteKV(Head(order), m[Head(order)]) \o WriteKeys(m, Tail(order))

\* the texts writeSection may append for the section map m
writeSection(m) == {WriteKeys(m, o) : o \in Orders(DOMAIN m)}

\* the texts the loop over the other sections may append, visiting them in
\* the given order
RECURSIVE WriteOthers(_, _)
WriteOthers(doc, order) ==
    IF order = <<>> THEN {<<>>}
    ELSE LET n == Head(order)
         IN  {<<"[">> \o n \o <<"]", LF>> \o t \o <<LF>> \o r :
                  t \in writeSection(doc[n]), r \in WriteOthers(doc, Tail(order))}

WriteToRootLast(doc) ==
    LET rootPart == IF root \in DOMAIN doc /\ DOMAIN doc[root] # {}
                    THEN {t \o <<LF>> : t \in writeSection(doc[root])}
                    ELSE {<<>>}
        others   == {n \in DOMAIN doc : n # root /\ DOMAIN doc[n] # {}}
    IN  UNION {{b \o a : a \in rootPart, b \in WriteOthers(doc, o)} :
                  o \in Orders(others)}

\* every content WriteTo may hand to d.Write
WriteTo(doc) ==
    LET rootPart == IF root \in DOMAIN doc /\ DOMAIN doc[root] # {}
                    THEN {t \o <<LF>> : t \in writeSection(doc[root])}
                    ELSE {<<>>}
        others   == {n \in DOMAIN doc : n # root /\ DOMAIN doc[n] # {}}
    IN  UNION {{a \o b : a \in rootPart, b \in WriteOthers(doc, o)} :
                  o \in Orders(others)}

----------------------------------------------------------------------------
(* The listings: Ini.Sections and Ini.Keys *)

\* the slices Sections() may return; the order is that of a range over the map
Sections(doc) == Orders(DOMAIN doc)

KeysExactName(doc, s) ==
    IF s \notin DOMAIN doc THEN {<<>>} ELSE Orders(DOMAIN doc[s])

\* the slices Keys(s) may return; nil, for a section that is absent, is the
\* empty slice
Keys(doc, s) ==
    LET ls == ToLower(s)
    IN  IF ls \notin DOMAIN doc THEN {<<>>} ELSE Orders(DOMAIN doc[ls])

----------------------------------------------------------------------------
(* Bounds and the inputs the operations are called with *)

MaxMainLines == 2   \* lines of a text parsed between Set and Unset calls
MaxLines     == 3   \* lines of a text whose parse is studied line by line
MaxLineLen   == 5   \* characters of a single line studied exhaustively
MaxRootLines == 5   \* lines of a text parsed, written and read back
MaxValLen    == 2   \* characters of a value written and read back
NumCallers   == 3   \* simultaneous callers of the IniSafe wrapper
MaxEscLen    == 5   \* characters of a raw value whose decoding is studied
MaxMergeLines == 4  \* lines of a text whose merge by key is studied

\* all strings of at most n characters of chars
Strings(chars, n) == UNION {[1..m -> chars] : m \in 0..n}

RECURSIVE Join(_)
Join(lines) ==
    IF lines = <<>> THEN <<>> ELSE Head(lines) \o <<LF>> \o Join(Tail(lines))

\* all texts of at most n lines of pool, each line ended by a line feed
Texts(pool, n) == {Join(ls) : ls \in UNION {[1..m -> pool] : m \in 0..n}}

\* names and values of the Set/Unset calls
SecNames == {root, <<"R", "o", "o", "t">>, <<"s">>, <<"S">>}
KeyNames == {<<"k">>, <<"K">>, <<"j">>}
Vals     == {<<"v">>, <<"W">>}

\* lines of the texts parsed between Set and Unset calls
MainPool == { <<"[", "S", "]">>,
              <<"K", SP, "=", SP, "W">>,
              <<"[", SP, "]">> }

MainTexts == Texts(MainPool, MaxMainLines)

\* lines of the texts whose parse is studied line by line
ParsePool == { <<>>,
               <<";", "k", "=", "v">>,
               <<"#", "[", "s", "]">>,
               <<"[", "S", "]">>,
               <<"[", SP, "]">>,
               <<"K", SP, "=", "W">>,
               <<"j", "=", "v", ";", "#">>,
               <<"=", "v">>,
               <<"k">>,
               <<"[", "R", "o", "o", "t", "]", CR>> }

ParseTexts == Texts(ParsePool, MaxLines)

\* lines of the texts parsed, written and read back
RootPool == { <<"k", "=", "v">>,
              <<"K", SP, "=", "W">>,
              <<"[", "s", "]">>,
              <<"[", "t", "]">>,
              <<"[", "R", "O", "O", "T", "]">> }

RootTexts == Texts(RootPool, MaxRootLines)

\* lines of the texts whose merge by key is studied
MergePool == { <<"k", "=", "v">>,
               <<"K", "=", "W">>,
               <<"[", "s", "]">>,
               <<"[", "R", "o", "o", "t", "]">> }

MergeTexts == Texts(MergePool, MaxMergeLines)

\* entries a Document may hold before the studied parse
PreEntries == {<<root, <<"k">>>>, <<<<"s">>, <<"k">>>>, <<<<"s">>, <<"j">>>>}
PreVal     == <<"o">>

\* characters of the single lines studied exhaustively
LineChars == {"a", "A", EQ, DQ, SQ, SP, BS, "n"}

\* characters of the raw values whose decoding is studied
EscChars == {DQ, SQ, BS, "n", "r", "t", "A"}

\* characters of the values written and read back
ValChars == {"A", "n", SP, TAB, LF, CR, DQ, SQ, BS, EQ, ";", "#", "[", "]", VT, FF}

\* entries of the Documents written and read back
RTEntries == {<<root, <<"k">>>>, <<<<"s">>, <<"k">>>>, <<<<"s">>, <<"j">>>>,
              <<<<"t">>, <<"K">>>>}
\* the entry that may also hold a fixed value, to tell the values of two
\* keys of one section apart
PlainEntry == <<<<"s">>, <<"j">>>>
Plain      == <<"x">>

----------------------------------------------------------------------------
(* The IniSafe wrapper: its lock, and the calls made through it *)

Callers == 1..NumCallers

\* sync.RWMutex: w holds the caller that has taken the writer side (it owns
\* the lock once the readers have left), r the callers holding a read lock
Unlocked == [w |-> {}, r |-> {}]

RLockAlways(m) == TRUE

\* RLock blocks while a writer holds the lock or waits for it
RLockReady(m) == m.w = {}
\* Lock first takes the writer side, which one caller has at a time
LockReady(m)  == m.w = {}
\* and then waits until the readers that hold the lock have left
Drained(m)    == m.r = {}

ReleasedUnlessError(m, p, e) ==
    IF e # ErrNone THEN m ELSE [w |-> m.w \ {p}, r |-> m.r \ {p}]

\* defer i.mu.Unlock() / defer i.mu.RUnlock(): the lock of caller p is released
\* whatever the call returns, e being the error it returns
Released(m, p, e) == [w |-> m.w \ {p}, r |-> m.r \ {p}]

ExclusiveNoSet  == {"Unset", "ReadFrom"}
ExclusiveNoLoad == {"Set", "Unset"}

\* the wrapper methods that take i.mu.Lock(); the others take i.mu.RLock()
Exclusive == {"Set", "Unset", "ReadFrom"}

\* the methods of Ini that change the Document
Mutates(c) == c.op \in {"Set", "Unset", "ReadFrom"}

ErrStream == "stream error"
ErrWrite  == "write error"

NoCall == [op |-> "none", section |-> <<>>, key |-> <<>>, value |-> <<>>,
           fails |-> FALSE]

\* names, values and texts of the calls made through the wrapper
SafeSec   == <<"s">>
SafeKeys  == {<<"k">>, <<"j">>}
SafeVal   == <<"v">>
\* a text that is parsed without error
GoodText  == Join(<< <<"[", "S", "]">>, <<"k", "=", "v">> >>)
\* a text whose third line is rejected, after its second line was merged
BadText   == Join(<< <<"[", "s", "]">>, <<"j", "=", "v">>, <<"k">> >>)
SafeTexts == {GoodText, BadText}
\* a text that assigns to two keys, and one whose fourth line is rejected after
\* both were merged
TwoKeys   == Join(<< <<"[", "s", "]">>, <<"k", "=", "v">>, <<"J", "=", "v">> >>)
TwoKeysBad == Join(<< <<"[", "s", "]">>, <<"k", "=", "v">>, <<"j", "=", "v">>, <<"k">> >>)
LoadTexts == {TwoKeys, TwoKeysBad}

SetCall(k)   == [NoCall EXCEPT !.op = "Set", !.section = SafeSec, !.key = k, !.value = SafeVal]
UnsetCall(k) == [NoCall EXCEPT !.op = "Unset", !.section = SafeSec, !.key = k]
GetCall(k)   == [NoCall EXCEPT !.op = "Get", !.section = SafeSec, !.key = k]
\* o is HasSection, Sections or Keys
ListCall(o)  == [NoCall EXCEPT !.op = o, !.section = SafeSec]
\* fails tells that the writer returns an error
WriteToCall(fails) == [NoCall EXCEPT !.op = "WriteTo", !.fails = fails]
\* fails tells that the stream returns an error after the text was read
ReadFromCall(text, fails) == [NoCall EXCEPT !.op = "ReadFrom", !.value = text, !.fails = fails]

\* the calls of the callers whose interleavings are studied
SafeCalls ==
    {SetCall(k) : k \in SafeKeys}
    \cup {UnsetCall(<<"k">>), GetCall(<<"k">>), WriteToCall(FALSE)}
    \cup {ListCall(o) : o \in {"HasSection", "Sections", "Keys"}}
    \cup {ReadFromCall(t, FALSE) : t \in SafeTexts}

\* the Documents the calls can make
SafeDocs ==
    {New} \cup {[s \in {SafeSec} |-> [k \in ks |-> SafeVal]] :
                    ks \in SUBSET (SafeKeys \cup {<<"J">>}) \ {{}}}

\* i.data.ReadFrom(source) for each of the texts on each of the Documents,
\* computed once
Loads == [doc \in SafeDocs, text \in SafeTexts \cup LoadTexts |-> ReadFrom(doc, text)]

\* the Document after call c on doc
Effect(doc, c) ==
    CASE c.op = "Set"      -> Set(doc, c.section, c.key, c.value)
      [] c.op = "Unset"    -> Unset(doc, c.section, c.key)
      [] c.op = "ReadFrom" -> Loads[doc, c.value].doc
      [] OTHER             -> doc

NoRes == [value |-> <<>>, ok |-> FALSE, err |-> ErrNone, list |-> <<>>]

\* what call c may return on doc
Results(doc, c) ==
    CASE c.op = "Get" ->
           LET g == Get(doc, c.section, c.key)
           IN  {[NoRes EXCEPT !.value = g.value, !.ok = g.ok]}
      [] c.op = "HasSection" -> {[NoRes EXCEPT !.ok = HasSection(doc, c.section)]}
      [] c.op = "Sections" -> {[NoRes EXCEPT !.list = l] : l \in Sections(doc)}
      [] c.op = "Keys" -> {[NoRes EXCEPT !.list = l] : l \in Keys(doc, c.section)}
      [] c.op = "WriteTo" ->
           {[NoRes EXCEPT !.err = IF c.fails THEN ErrWrite ELSE ErrNone]}
      [] c.op = "ReadFrom" ->
           LET e == Loads[doc, c.value].err
           IN  {[NoRes EXCEPT !.err = IF e = ErrNone /\ c.fails THEN ErrStream ELSE e]}
      [] OTHER -> {NoRes}

\* a caller that is not in a call
\* at and sect are the lineNum and the section of a ReadFrom under way
Idle == [pc |-> "idle", call |-> NoCall, seen |-> New, loc |-> New, res |-> NoRes,
         at |-> 0, sect |-> root]

----------------------------------------------------------------------------
(* State machine *)

NoRet == [value |-> <<>>, ok |-> FALSE, err |-> ErrNone, line |-> 0, n |-> 0]

InitCommon ==
    /\ i = New
    /\ buf = <<>>
    /\ i2 = New
    /\ op = "none"
    /\ section = <<>>
    /\ key = <<>>
    /\ value = <<>>
    /\ pre = New
    /\ ret = NoRet
    /\ mu = Unlocked
    /\ th = [p \in Callers |-> Idle]
    /\ serial = New

\* i.Set(s, k, v)
SetStep(s, k, v) ==
    /\ i' = Set(i, s, k, v)
    /\ pre' = i
    /\ op' = "Set"
    /\ section' = s
    /\ key' = k
    /\ value' = v
    /\ ret' = NoRet
    /\ UNCHANGED <<buf, i2, pc, safe>>

\* i.Unset(s, k)
UnsetStep(s, k) ==
    /\ i' = Unset(i, s, k)
    /\ pre' = i
    /\ op' = "Unset"
    /\ section' = s
    /\ key' = k
    /\ value' = <<>>
    /\ ret' = NoRet
    /\ UNCHANGED <<buf, i2, pc, safe>>

\* n, err := i.ReadFrom(strings.NewReader(text))
ReadStep(text) ==
    LET r == ReadFrom(i, text)
    IN  /\ i' = r.doc
        /\ pre' = i
        /\ op' = "ReadFrom"
        /\ section' = <<>>
        /\ key' = <<>>
        /\ value' = <<>>
        /\ src' = text
        /\ ret' = [NoRet EXCEPT !.err = r.err, !.line = r.line, !.n = r.n]
        /\ UNCHANGED <<buf, i2, safe>>

\* n, err := i.WriteTo(buf), the writer accepting every byte
CallWriteTo ==
    /\ pc \in {"set", "parsed"}
    /\ \E content \in WriteTo(i) :
          /\ buf' = content
          /\ ret' = [NoRet EXCEPT !.n = Len(content)]
    /\ op' = "WriteTo"
    /\ pc' = "written"
    /\ UNCHANGED <<i, i2, section, key, value, src, pre, safe>>

\* ini2 := New(); n, err := ini2.ReadFrom(bytes.NewReader(buf.Bytes()))
ReadBack ==
    /\ pc = "written"
    /\ LET r == ReadFrom(New, buf)
       IN  /\ i2' = r.doc
           /\ ret' = [NoRet EXCEPT !.err = r.err, !.line = r.line, !.n = r.n]
    /\ op' = "ReadFrom"
    /\ pc' = "read"
    /\ UNCHANGED <<i, buf, section, key, value, src, pre, safe>>

(* Calls in any order on one Document *)

Init ==
    /\ InitCommon
    /\ src = <<>>
    /\ pc = "api"

CallSet ==
    /\ pc = "api"
    /\ \E s \in SecNames, k \in KeyNames, v \in Vals : SetStep(s, k, v)
    /\ src' = <<>>

CallUnset ==
    /\ pc = "api"
    /\ \E s \in SecNames, k \in KeyNames : UnsetStep(s, k)
    /\ src' = <<>>

CallReadFrom ==
    /\ pc = "api"
    /\ \E text \in MainTexts : ReadStep(text) /\ pc' = pc

Next == CallSet \/ CallUnset \/ CallReadFrom

Spec == Init /\ [][Next]_vars

(* One parse of a chosen text into a Document that holds some entries *)

InitParse ==
    /\ InitCommon
    /\ src \in ParseTexts
    /\ pc = "build"

PrepSet ==
    /\ pc = "build"
    /\ \E e \in PreEntries : SetStep(e[1], e[2], PreVal)
    /\ UNCHANGED src

ParseSrc ==
    /\ pc = "build"
    /\ ReadStep(src)
    /\ pc' = "parsed"

NextParse == PrepSet \/ ParseSrc

SpecParse == InitParse /\ [][NextParse]_vars

(* A text parsed into a Document that holds some entries, and one more    *)
(* line parsed by a second call                                           *)

InitMerge ==
    /\ InitCommon
    /\ src \in MergeTexts
    /\ pc = "build"

ParseAgain ==
    /\ pc = "parsed"
    /\ \E l \in MergePool : ReadStep(Join(<<l>>))
    /\ pc' = "again"

NextMerge == PrepSet \/ ParseSrc \/ ParseAgain

SpecMerge == InitMerge /\ [][NextMerge]_vars

(* One parse of a single line, every line of the bound tried *)

InitLine ==
    /\ InitCommon
    /\ src \in Strings(LineChars, MaxLineLen)
    /\ pc = "build"

SpecLine == InitLine /\ [][ParseSrc]_vars

(* One parse of a line a=<raw value>, every raw value of the bound tried *)

InitEsc ==
    /\ InitCommon
    /\ src \in {<<"a", EQ>> \o v : v \in Strings(EscChars, MaxEscLen)}
    /\ pc = "build"

SpecEsc == InitEsc /\ [][ParseSrc]_vars

(* A text parsed, the Document written, and read back into a new one *)

InitRoot ==
    /\ InitCommon
    /\ src \in RootTexts
    /\ pc = "build"

NextRoot == ParseSrc \/ CallWriteTo \/ ReadBack

SpecRoot == InitRoot /\ [][NextRoot]_vars

(* A Document built by Set calls, written, and read back into a new one *)

InitRT ==
    /\ InitCommon
    /\ src \in Strings(ValChars, MaxValLen)
    /\ pc = "set"

\* ini1.Set(s, k, v), the arguments not being recorded
BuildStep(s, k, v) ==
    /\ i' = Set(i, s, k, v)
    /\ op' = "Set"
    /\ UNCHANGED <<buf, i2, section, key, value, src, pre, ret, pc, safe>>

BuildSet ==
    /\ pc = "set"
    /\ \E e \in RTEntries :
          \/ BuildStep(e[1], e[2], src)
          \/ e = PlainEntry /\ BuildStep(e[1], e[2], Plain)

NextRT == BuildSet \/ CallWriteTo \/ ReadBack

SpecRT == InitRT /\ [][NextRT]_vars

(* A Document of one Set call, the chosen string being its value, its      *)
(* section or its key, written and read back into a new one                *)

OneSec == <<"s">>
OneKey == <<"k">>

SetOne ==
    /\ pc = "set"
    /\ op = "none"
    /\ \/ SetStep(OneSec, OneKey, src)
       \/ SetStep(src, OneKey, Plain)
       \/ SetStep(OneSec, src, Plain)
    /\ UNCHANGED src

NextOne == SetOne \/ CallWriteTo \/ ReadBack

SpecOne == InitRT /\ [][NextOne]_vars

(* Simultaneous callers of one IniSafe *)

\* what the calls through the wrapper leave alone
driver == <<buf, i2, op, section, key, value, src, pre, ret, pc>>

InitSafe ==
    /\ InitCommon
    /\ src = <<>>
    /\ pc = "safe"

\* caller p enters a wrapper method, with a call of calls
CallOf(p, calls) ==
    /\ th[p].pc = "idle"
    /\ \E c \in calls : th' = [th EXCEPT ![p] = [Idle EXCEPT !.pc = "wait", !.call = c]]
    /\ UNCHANGED <<i, mu, serial, driver>>

Call(p) == CallOf(p, SafeCalls)

\* caller p has the lock: its call takes its place in the order of the calls
Acquired(p) ==
    /\ th' = [th EXCEPT ![p].pc = "cs", ![p].seen = serial]
    /\ serial' = Effect(serial, th[p].call)
    /\ UNCHANGED <<i, driver>>

\* i.mu.RLock() returns
RLock(p) ==
    /\ th[p].pc = "wait"
    /\ th[p].call.op \notin Exclusive
    /\ RLockReady(mu)
    /\ mu' = [mu EXCEPT !.r = @ \cup {p}]
    /\ Acquired(p)

\* i.mu.Lock() takes the writer side
LockBegin(p) ==
    /\ th[p].pc = "wait"
    /\ th[p].call.op \in Exclusive
    /\ LockReady(mu)
    /\ mu' = [mu EXCEPT !.w = {p}]
    /\ th' = [th EXCEPT ![p].pc = "pend"]
    /\ UNCHANGED <<i, serial, driver>>

\* i.mu.Lock() returns
LockEnd(p) ==
    /\ th[p].pc = "pend"
    /\ Drained(mu)
    /\ Acquired(p)
    /\ UNCHANGED mu

\* the method of Ini called by a wrapper method that leaves the Document alone
ReadBody(p) ==
    /\ th[p].pc = "cs"
    /\ ~Mutates(th[p].call)
    /\ \E r \in Results(i, th[p].call) : th' = [th EXCEPT ![p].pc = "ret", ![p].res = r]
    /\ UNCHANGED <<i, mu, serial, driver>>

\* the method of Ini called by Set, Unset or ReadFrom reads the Document
Fetch(p) ==
    /\ th[p].pc = "cs"
    /\ Mutates(th[p].call)
    /\ th' = [th EXCEPT ![p].pc = "mid", ![p].loc = i]
    /\ UNCHANGED <<i, mu, serial, driver>>

\* and stores what it makes of what it read
Store(p) ==
    /\ th[p].pc = "mid"
    /\ i' = Effect(th[p].loc, th[p].call)
    /\ \E r \in Results(th[p].loc, th[p].call) :
          th' = [th EXCEPT ![p].pc = "ret", ![p].res = r, ![p].loc = New]
    /\ UNCHANGED <<mu, serial, driver>>

\* the wrapper method returns and its deferred unlock runs
Return(p) ==
    /\ th[p].pc = "ret"
    /\ mu' = Released(mu, p, th[p].res.err)
    /\ th' = [th EXCEPT ![p] = Idle]
    /\ UNCHANGED <<i, serial, driver>>

\* a step of caller p inside a call
Inside(p) ==
    \/ RLock(p)
    \/ LockBegin(p)
    \/ LockEnd(p)
    \/ ReadBody(p)
    \/ Fetch(p)
    \/ Store(p)
    \/ Return(p)

NextSafe == \E p \in Callers : Call(p) \/ Inside(p)

SpecSafe == InitSafe /\ [][NextSafe]_vars

(* Simultaneous callers of one IniSafe, the loads merging line by line *)

\* the calls: the loads of two texts of several lines, the five methods that
\* read the Document, and an Unset that takes a key out again
LoadCalls ==
    {ReadFromCall(t, FALSE) : t \in LoadTexts}
    \cup {GetCall(<<"k">>), WriteToCall(FALSE)}
    \cup {ListCall(o) : o \in {"HasSection", "Sections", "Keys"}}
    \cup {UnsetCall(<<"k">>)}

CallLoad(p) == CallOf(p, LoadCalls)

\* the method of Ini called by a wrapper method that leaves the Document
\* alone; loc is the Document it read
Observe(p) ==
    /\ th[p].pc = "cs"
    /\ ~Mutates(th[p].call)
    /\ \E r \in Results(i, th[p].call) :
          th' = [th EXCEPT ![p].pc = "ret", ![p].res = r, ![p].loc = i]
    /\ UNCHANGED <<i, mu, serial, driver>>

\* the method of Ini called by Set or Unset reads the Document
FetchUpdate(p) ==
    /\ th[p].call.op # "ReadFrom"
    /\ Fetch(p)

\* i.data.ReadFrom: one turn of the scan loop, on the next line of the text
LoadLine(p) ==
    LET lines == ScanLines(th[p].call.value)
        n     == th[p].at + 1
        r     == ReadLoop(i, SubSeq(lines, 1, n), n, th[p].sect, 0)
    IN  /\ th[p].pc = "cs"
        /\ th[p].call.op = "ReadFrom"
        /\ n <= Len(lines)
        /\ i' = r.doc
        /\ th' = IF r.err = ErrNone
                 THEN [th EXCEPT ![p].at = n,
                                 ![p].sect = SectionAfter(th[p].sect, lines[n])]
                 ELSE [th EXCEPT ![p].pc = "ret", ![p].at = 0, ![p].sect = root,
                                 ![p].res = [NoRes EXCEPT !.err = r.err]]
        /\ UNCHANGED <<mu, serial, driver>>

\* i.data.ReadFrom: the scanner has no more lines; scanner.Err() and return
LoadEnd(p) ==
    /\ th[p].pc = "cs"
    /\ th[p].call.op = "ReadFrom"
    /\ th[p].at = Len(ScanLines(th[p].call.value))
    /\ th' = [th EXCEPT ![p].pc = "ret", ![p].at = 0, ![p].sect = root,
                        ![p].res = [NoRes EXCEPT
                                      !.err = IF th[p].call.fails THEN ErrStream ELSE ErrNone]]
    /\ UNCHANGED <<i, mu, serial, driver>>

NextLoad ==
    \E p \in Callers :
       \/ CallLoad(p)
       \/ RLock(p)
       \/ LockBegin(p)
       \/ LockEnd(p)
       \/ Observe(p)
       \/ FetchUpdate(p)
       \/ Store(p)
       \/ LoadLine(p)
       \/ LoadEnd(p)
       \/ Return(p)

SpecLoad == InitSafe /\ [][NextLoad]_vars

(* Simultaneous callers of one IniSafe whose calls return errors, under    *)
(* fair scheduling                                                         *)

\* the calls: a Set, an Unset, a Get, a ReadFrom that returns a parse error,
\* a ReadFrom whose stream returns an error, and a WriteTo whose writer does
FairCalls ==
    {SetCall(<<"k">>), UnsetCall(<<"k">>), GetCall(<<"k">>), WriteToCall(TRUE),
     ReadFromCall(BadText, FALSE), ReadFromCall(GoodText, TRUE)}

CallFair(p) == CallOf(p, FairCalls)

NextFair == \E p \in Callers : CallFair(p) \/ Inside(p)

\* a step of a method that holds the lock, or that has the writer side and
\* finds the readers gone, is taken in the end; and a caller that waits for a
\* lock which is free again and again gets it
FairSafe ==
    /\ InitSafe /\ [][NextFair]_vars
    /\ WF_vars(\E p \in Callers :
                  LockEnd(p) \/ ReadBody(p) \/ Fetch(p) \/ Store(p) \/ Return(p))
    /\ \A p \in Callers : SF_vars(RLock(p) \/ LockBegin(p))

----------------------------------------------------------------------------
(* Vocabulary of the claims: a text read declaratively, line by line, and  *)
(* not by the parser's loop                                                *)

MaxOf(S) == CHOOSE n \in S : \A m \in S : m <= n
MinOf(S) == CHOOSE n \in S : \A m \in S : n <= m

NoUpper(s) == \A n \in 1..Len(s) : s[n] \notin DOMAIN LowerOf

SameName(a, b) ==
    /\ Len(a) = Len(b)
    /\ \A n \in 1..Len(a) : ToLowerChar(a[n]) = ToLowerChar(b[n])

Found(v) == [value |-> v, ok |-> TRUE]

BlankLine(l)   == TrimSpace(l) = <<>>
CommentLine(l) == ~BlankLine(l) /\ TrimSpace(l)[1] \in {";", "#"}
HeaderLine(l)  ==
    LET t == TrimSpace(l)
    IN  ~BlankLine(l) /\ ~CommentLine(l) /\ Len(t) >= 2 /\ t[1] = "[" /\ t[Len(t)] = "]"
HeaderName(l)  ==
    LET t == TrimSpace(l) IN ToLower(TrimSpace(Slice(t, 2, Len(t) - 1)))
DataLine(l)    == ~BlankLine(l) /\ ~CommentLine(l) /\ ~HeaderLine(l)
HasEq(l)       == \E n \in 1..Len(l) : l[n] = EQ
FirstEq(t)     == CHOOSE n \in 1..Len(t) : t[n] = EQ /\ \A m \in 1..(n - 1) : t[m] # EQ
LineKey(l)     ==
    LET t == TrimSpace(l) IN ToLower(TrimSpace(Slice(t, 1, FirstEq(t) - 1)))
LineRawValue(l) ==
    LET t == TrimSpace(l) IN TrimSpace(Slice(t, FirstEq(t) + 1, Len(t)))
LineValue(l)   == ParseValue(LineRawValue(l))
KVLine(l)      == DataLine(l) /\ HasEq(l) /\ LineKey(l) # <<>>

\* the error a line is rejected with, ErrNone when it is accepted
LineError(l) ==
    IF HeaderLine(l) /\ HeaderName(l) = <<>> THEN ErrEmptySection
    ELSE IF DataLine(l) /\ ~HasEq(l) THEN ErrMissingEq
    ELSE IF DataLine(l) /\ LineKey(l) = <<>> THEN ErrEmptyKey
    ELSE ErrNone

\* the number of the first rejected line, Len(lines) + 1 when there is none
FirstBad(lines) ==
    LET bad == {n \in 1..Len(lines) : LineError(lines[n]) # ErrNone}
    IN  IF bad = {} THEN Len(lines) + 1 ELSE MinOf(bad)

\* the section line n belongs to: the last header above it, or root
SectionOf(lines, n) ==
    LET hs == {m \in 1..(n - 1) : HeaderLine(lines[m])}
    IN  IF hs = {} THEN root ELSE HeaderName(lines[MaxOf(hs)])

\* the key-value lines among lines 1..upto that assign to (s, k)
Hits(lines, upto, s, k) ==
    {n \in 1..upto : KVLine(lines[n]) /\ SectionOf(lines, n) = s /\ LineKey(lines[n]) = k}

\* the (section, key) pairs the key-value lines among lines 1..upto assign to
Targets(lines, upto) ==
    {<<SectionOf(lines, n), LineKey(lines[n])>> : n \in {m \in 1..upto : KVLine(lines[m])}}

\* the lines of the text of the last parse that are above its first rejected line
Accepted == FirstBad(ScanLines(src)) - 1

----------------------------------------------------------------------------
SamePair(s, k) == SameName(s, section) /\ SameName(k, key)

(* C3: after Set(s,k,v), Get returns (v, true) for every case variant of   *)
(* s and k; the value stays until a Set, Unset or parse assigns to or      *)
(* removes that same normalized pair; a Set on a pair already present      *)
(* replaces its value and adds no entry.                                   *)

C3_GetAfterSet ==
    /\ op = "Set" =>
          /\ \A s \in SecNames, k \in KeyNames :
                IF SamePair(s, k) THEN Get(i, s, k) = Found(value)
                ELSE Get(i, s, k) = Get(pre, s, k)
          /\ Get(pre, section, key).ok =>
                Cardinality(Entries(i)) = Cardinality(Entries(pre))
    /\ op = "Unset" =>
          \A s \in SecNames, k \in KeyNames :
              ~SamePair(s, k) => Get(i, s, k) = Get(pre, s, k)
    /\ op = "ReadFrom" =>
          \A s \in SecNames, k \in KeyNames :
              Hits(ScanLines(src), Accepted, ToLower(s), ToLower(k)) = {}
                  => Get(i, s, k) = Get(pre, s, k)

\* a Set with upper-case names has replaced the value of an entry
C3_Witness ==
    /\ op = "Set"
    /\ section = <<"S">>
    /\ key = <<"K">>
    /\ Get(pre, <<"s">>, <<"k">>).ok
    /\ Get(pre, <<"s">>, <<"k">>).value # value
    /\ Get(i, <<"s">>, <<"k">>) = Found(value)

(* C4: every section present in the Document has at least one key; Unset   *)
(* of the only key of a section removes the section, and a header that no  *)
(* accepted key-value line follows creates no section.                     *)

C4_NoEmptySection ==
    /\ \A s \in DOMAIN i : DOMAIN i[s] # {}
    /\ op = "Unset" /\ HasSection(pre, section)
          /\ DOMAIN pre[ToLower(section)] = {ToLower(key)}
          => ~HasSection(i, section)
    /\ op = "ReadFrom" =>
          DOMAIN i = DOMAIN pre \cup {e[1] : e \in Targets(ScanLines(src), Accepted)}

\* Unset has removed the only key of a section, other sections remaining
C4_Witness ==
    /\ op = "Unset"
    /\ HasSection(pre, section)
    /\ ~HasSection(i, section)
    /\ i # New

(* C5: Unset(s,k) changes nothing but the normalized entry (s,k); on a     *)
(* section or key that does not exist it leaves the Document unchanged.    *)

C5_UnsetFrame ==
    op = "Unset" =>
        LET gone == <<ToLower(section), ToLower(key)>>
        IN  /\ Entries(i) = Entries(pre) \ {gone}
            /\ \A e \in Entries(i) : i[e[1]][e[2]] = pre[e[1]][e[2]]
            /\ gone \notin Entries(pre) => i = pre

\* Unset has removed one of the keys of a section, which keeps another key,
\* while a second section is present
C5_Witness ==
    /\ op = "Unset"
    /\ i # pre
    /\ HasSection(i, section)
    /\ Cardinality(DOMAIN i) = 2

(* C6: every stored section name and key is in lower case, so no two       *)
(* stored names differ only in case.                                       *)

C6_NamesLowerCase ==
    /\ \A s \in DOMAIN i :
          /\ NoUpper(s)
          /\ \A k \in DOMAIN i[s] : NoUpper(k)
    /\ \A a, b \in DOMAIN i : SameName(a, b) => a = b
    /\ \A s \in DOMAIN i : \A a, b \in DOMAIN i[s] : SameName(a, b) => a = b

\* a text with an upper-case header and key was parsed after a Set with
\* the same names in lower case
C6_Witness ==
    /\ op = "ReadFrom"
    /\ src = Join(<< <<"[", "S", "]">>, <<"K", SP, "=", SP, "W">> >>)
    /\ Get(pre, <<"s">>, <<"k">>) = Found(<<"v">>)
    /\ Get(i, <<"s">>, <<"k">>) = Found(<<"W">>)

(* C7: parsing fails at the first offending line and reports its 1-based   *)
(* number, blank and comment lines counted: an empty header gives "empty   *)
(* section name", an empty text before the first '=' gives "empty key      *)
(* name", a data line without '=' gives the missing-'=' error; no line     *)
(* after the failing one is processed.                                     *)

C7_FirstErrorLine ==
    pc = "parsed" =>
        LET lines == ScanLines(src)
            bad   == FirstBad(lines)
        IN  IF bad > Len(lines)
            THEN ret.err = ErrNone /\ ret.line = 0
            ELSE /\ ret.line = bad
                 /\ ret.err = LineError(lines[bad])
                 /\ ret.err # ErrNone
                 /\ Entries(i) \subseteq Entries(pre) \cup Targets(lines, bad - 1)

\* the parse failed with "empty key name" at line 3 of 3, a blank or a
\* comment line being among the two lines above it
C7_Witness ==
    /\ pc = "parsed"
    /\ ret.err = ErrEmptyKey
    /\ ret.line = 3
    /\ \E n \in 1..2 : ~DataLine(ScanLines(src)[n]) /\ ~HeaderLine(ScanLines(src)[n])
    /\ Len(ScanLines(src)) = 3

MergedValue(lines, upto, s, k) ==
    LET hits == Hits(lines, upto, s, k)
    IN  IF hits # {} THEN Found(LineValue(lines[MaxOf(hits)]))
        ELSE GetExact(pre, s, k)

(* C8: when ReadFrom fails at line N, the Document is the Document before  *)
(* the call with exactly the key-value lines 1..N-1 merged into their      *)
(* sections; entries those lines do not assign to are unchanged.           *)

C8_PartialMerge ==
    pc = "parsed" /\ ret.err # ErrNone =>
        LET lines == ScanLines(src)
            upto  == FirstBad(lines) - 1
        IN  /\ Entries(i) = Entries(pre) \cup Targets(lines, upto)
            /\ \A e \in Entries(i) :
                  GetExact(i, e[1], e[2]) = MergedValue(lines, upto, e[1], e[2])

\* the parse failed after it overwrote one entry, added another and left a
\* third as it was
C8_Witness ==
    /\ pc = "parsed"
    /\ ret.err # ErrNone
    /\ ret.line = 3
    /\ \E e \in Entries(pre) : GetExact(i, e[1], e[2]) # GetExact(pre, e[1], e[2])
    /\ \E e \in Entries(pre) : GetExact(i, e[1], e[2]) = GetExact(pre, e[1], e[2])
    /\ Entries(i) # Entries(pre)

SameQuotes(v) == Len(v) >= 2 /\ v[1] = v[Len(v)] /\ v[1] \in {DQ, SQ}

(* C9: a key-value line is split at the first '=' of the trimmed line; the *)
(* value is the trimmed remainder, and its surrounding quotes are stripped *)
(* exactly when it has at least 2 characters and begins and ends with the  *)
(* same quote character. A single quote character, mismatched quotes, or a *)
(* quote at one end only are stored verbatim, and later '=' characters     *)
(* belong to the value.                                                    *)

C9_SplitAndQuotes ==
    pc = "parsed" /\ KVLine(src) =>
        LET t     == TrimSpace(src)
            p     == FirstEq(t)
            k     == ToLower(TrimSpace(Slice(t, 1, p - 1)))
            v     == TrimSpace(Slice(t, p + 1, Len(t)))
            inner == Slice(v, 2, Len(v) - 1)
        IN  /\ ret.err = ErrNone
            /\ Entries(i) = {<<root, k>>}
            /\ ~SameQuotes(v) => i[root][k] = v
            /\ SameQuotes(v) /\ ~ContainsRune(inner, BS) => i[root][k] = inner
            /\ SameQuotes(v) /\ ContainsRune(inner, BS) =>
                  i[root][k] = Unescape(inner, v[1], FALSE)

\* the line a="=' was parsed: the quotes do not match and a second '=' is
\* in the value, which is stored verbatim
C9_Witness ==
    /\ pc = "parsed"
    /\ src = <<"a", EQ, DQ, EQ, SQ>>
    /\ Get(i, root, <<"a">>) = Found(<<DQ, EQ, SQ>>)

\* the line a='a' was parsed: the matching quotes are stripped
C9_WitnessStripped ==
    /\ pc = "parsed"
    /\ src = <<"a", EQ, SQ, "a", SQ>>
    /\ Get(i, root, <<"a">>) = Found(<<"a">>)

\* line n of lines is a key-value line in the scope of root: no header is
\* above it, or the last header above it spells root in some letter case
InRootScope(lines, n) ==
    LET hs == {m \in 1..(n - 1) : HeaderLine(lines[m])}
    IN  /\ KVLine(lines[n])
        /\ \/ hs = {}
           \/ LET h == TrimSpace(lines[MaxOf(hs)])
              IN  SameName(TrimSpace(Slice(h, 2, Len(h) - 1)), root)

\* the number of lines above the first header line
AboveHeaders(lines) ==
    LET hs == {n \in 1..Len(lines) : HeaderLine(lines[n])}
    IN  IF hs = {} THEN Len(lines) ELSE MinOf(hs) - 1

RootKeys(doc) == IF root \in DOMAIN doc THEN DOMAIN doc[root] ELSE {}

(* C10: key-value lines above every header are stored in section "root",   *)
(* and so are those under a header [root] in any letter case; WriteTo      *)
(* writes the keys of root first, without a header and above every header, *)
(* so that reading the text back puts them in root again, and every other  *)
(* key in its own section.                                                 *)

C10_RootSection ==
    /\ pc \in {"parsed", "written", "read"} =>
          LET lines == ScanLines(src)
          IN  RootKeys(i) =
                  {LineKey(lines[n]) : n \in {m \in 1..Len(lines) : InRootScope(lines, m)}}
    /\ pc \in {"written", "read"} =>
          LET out   == ScanLines(buf)
              above == {n \in 1..AboveHeaders(out) : KVLine(out[n])}
          IN  /\ {LineKey(out[n]) : n \in above} = RootKeys(i)
              /\ Cardinality(above) = Cardinality(RootKeys(i))
              /\ \A n \in 1..Len(out) : HeaderLine(out[n]) => HeaderName(out[n]) # root
    /\ pc = "read" => ret.err = ErrNone /\ i2 = i

\* a key was parsed above the headers, one under [s], one under [ROOT], and
\* the Document was written and read back
C10_Witness ==
    /\ pc = "read"
    /\ src = Join(<< <<"k", "=", "v">>, <<"[", "s", "]">>, <<"k", "=", "v">>,
                     <<"[", "R", "O", "O", "T", "]">>, <<"K", SP, "=", "W">> >>)
    /\ Get(i2, root, <<"k">>) = Found(<<"W">>)
    /\ Get(i2, <<"s">>, <<"k">>) = Found(<<"v">>)

\* the characters C1 names
C1Chars == {"A", "n", SP, TAB, LF, CR, DQ, SQ, BS, EQ, ";", "#", "[", "]"}

OverC1Chars(v) == \A n \in 1..Len(v) : v[n] \in C1Chars

ReadBackSame ==
    /\ ret.err = ErrNone
    /\ \A e \in Entries(i) : Get(i2, e[1], e[2]) = Found(i[e[1]][e[2]])

(* C1: for every Document built by Set calls whose values are strings of   *)
(* ordinary characters, space, tab, newline, carriage return, the two      *)
(* quotes, backslash, '=', ';', '#', '[' and ']', and for every order in   *)
(* which WriteTo may emit sections and keys, ReadFrom of the output into   *)
(* an empty Document succeeds and Get returns the original value of every  *)
(* (section, key).                                                         *)

C1_RoundTrip == pc = "read" /\ OverC1Chars(src) => ReadBackSame

\* a Document with root and two other sections, one of them with two keys,
\* whose values hold a quote and a backslash, was written and read back
C1_Witness ==
    /\ pc = "read"
    /\ src = <<DQ, BS>>
    /\ Entries(i) = {<<root, <<"k">>>>, <<<<"s">>, <<"k">>>>, <<<<"s">>, <<"j">>>>,
                     <<<<"t">>, <<"k">>>>}
    /\ i[<<"s">>][<<"j">>] = Plain
    /\ ReadBackSame

(* C2: the round trip reproduces any value string at all: also a value     *)
(* that begins or ends with a character the parser trims (space, tab, CR,  *)
(* LF, vertical tab, form feed), the empty value, and a value of           *)
(* backslashes only.                                                       *)

C2_RoundTripAnyValue == pc = "read" => ReadBackSame

----------------------------------------------------------------------------
(* Claims about the IniSafe wrapper *)

\* caller p is inside the critical section of its wrapper method: it has
\* acquired the lock and not yet released it
InCS(p) == th[p].pc \in {"cs", "mid", "ret"}

\* caller p has acquired the lock for a call whose change of the Document is
\* not stored yet
Updating(p) == th[p].pc \in {"cs", "mid"} /\ Mutates(th[p].call)

(* C11: under every interleaving of calls through IniSafe, no Set or Unset *)
(* is inside its critical section together with any other call; a Set or   *)
(* Unset that has stored leaves the Document that the Document at its lock *)
(* acquisition gives under it, and a Get returns what that Document holds; *)
(* and whenever no update is under way the Document is the one the calls   *)
(* give when made one at a time in the order of their lock acquisitions    *)
C11_SerialUpdates ==
    /\ \A p \in Callers :
          InCS(p) /\ th[p].call.op \in {"Set", "Unset"}
             => \A q \in Callers \ {p} : ~InCS(q)
    /\ \A p \in Callers :
          th[p].pc = "ret" /\ th[p].call.op \in {"Set", "Unset"}
             => i = Effect(th[p].seen, th[p].call)
    /\ \A p \in Callers :
          th[p].pc = "ret" /\ th[p].call.op = "Get"
             => LET g == GetExact(th[p].seen, th[p].call.section, th[p].call.key)
                IN  th[p].res.ok = g.ok /\ th[p].res.value = g.value
    /\ (\A p \in Callers : ~Updating(p)) => i = serial

\* a Set of key k has stored while another caller waits to Set key j, the
\* Set added k, and both keys are in the Document
C11_Witness ==
    \E p, q \in Callers :
       /\ p # q
       /\ th[p].pc = "ret" /\ th[p].call.op = "Set" /\ th[p].call.key = <<"k">>
       /\ ~GetExact(th[p].seen, SafeSec, <<"k">>).ok
       /\ th[q].pc = "wait" /\ th[q].call.op = "Set" /\ th[q].call.key = <<"j">>
       /\ GetExact(i, SafeSec, <<"k">>).ok
       /\ GetExact(i, SafeSec, <<"j">>).ok

\* the wrapper methods that leave the Document alone
ReadOps == {"Get", "HasSection", "Sections", "Keys", "WriteTo"}

(* C12: each of Set, Unset and ReadFrom (Load) holds exclusive access, no   *)
(* other call being inside its critical section meanwhile; WriteTo (Write)  *)
(* holds shared access: while it is in progress no Set, Unset or ReadFrom   *)
(* is inside its critical section, and the calls that may overlap with each *)
(* other are Get, HasSection, Sections, Keys and WriteTo                    *)
C12_WriteToShared ==
    /\ \A p \in Callers :
          InCS(p) /\ th[p].call.op \in {"Set", "Unset", "ReadFrom"}
             => \A q \in Callers \ {p} : ~InCS(q)
    /\ \A p \in Callers :
          InCS(p) /\ th[p].call.op = "WriteTo"
             => \A q \in Callers \ {p} : InCS(q) => th[q].call.op \in ReadOps

\* two WriteTo calls and a Get are inside their critical sections at once
C12_Witness ==
    \E p, q, r \in Callers :
       /\ p # q /\ p # r /\ q # r
       /\ InCS(p) /\ th[p].call.op = "WriteTo"
       /\ InCS(q) /\ th[q].call.op = "WriteTo"
       /\ InCS(r) /\ th[r].call.op = "Get"

\* C12 as stated: WriteTo too holds exclusive access, so that while a WriteTo
\* is in progress no other call is inside its critical section
C12_WriteToExclusive ==
    \A p \in Callers :
       InCS(p) /\ th[p].call.op \in {"Set", "Unset", "ReadFrom", "WriteTo"}
          => \A q \in Callers \ {p} : ~InCS(q)

----------------------------------------------------------------------------
\* the lines of a text that are neither blank nor comments
Uncommented(lines) == SelectSeq(lines, LAMBDA l : ~BlankLine(l) /\ ~CommentLine(l))

(* C13: blank lines and lines whose first non-blank character is ';' or    *)
(* '#' change neither the Document nor the current section: a parse gives  *)
(* the Document, and the error if any, that the text without those lines   *)
(* gives, also when a comment contains '=' or looks like a header; and the *)
(* value an unquoted key-value line stores is all that follows its first   *)
(* '=', trimmed, a ';' or '#' in it included                               *)
C13_CommentsSkipped ==
    pc = "parsed" =>
        LET lines == ScanLines(src)
            bare  == ReadFrom(pre, Join(Uncommented(lines)))
        IN  /\ i = bare.doc
            /\ ret.err = bare.err
            /\ \A n \in 1..Accepted :
                  KVLine(lines[n]) =>
                     LET s == SectionOf(lines, n)
                         k == LineKey(lines[n])
                     IN  /\ n = MaxOf(Hits(lines, Accepted, s, k))
                         /\ ~IsQuoted(LineRawValue(lines[n]))
                         => GetExact(i, s, k) = Found(LineRawValue(lines[n]))

\* a text of a comment that looks like a header of section s, a comment that
\* contains '=', and a key-value line whose value ends in ";#" was parsed: the
\* line went to section root with the value "v;#", and key k was not assigned
C13_Witness ==
    /\ pc = "parsed"
    /\ ret.err = ErrNone
    /\ ScanLines(src) = << <<"#", "[", "s", "]">>, <<";", "k", "=", "v">>,
                           <<"j", "=", "v", ";", "#">> >>
    /\ GetExact(i, root, <<"j">>) = Found(<<"v", ";", "#">>)
    /\ ~GetExact(i, <<"s">>, <<"j">>).ok
    /\ GetExact(i, root, <<"k">>) = GetExact(pre, root, <<"k">>)

----------------------------------------------------------------------------
\* how many times x occurs in the slice l
Count(l, x) == Cardinality({n \in 1..Len(l) : l[n] = x})

(* C14: after any sequence of Set, Unset and parse, every slice Sections() *)
(* may return holds the normalized name of each section for which          *)
(* HasSection is true exactly once, and only names for which HasSection is *)
(* true; every slice Keys(s) may return, for each case variant of s, holds *)
(* the normalized name of each key for which Get(s,k) finds a value        *)
(* exactly once, and only keys that Get(s,k) finds; and Keys of a section  *)
(* that does not exist returns no key                                      *)
C14_Listings ==
    /\ \A l \in Sections(i) :
          /\ \A s \in SecNames : Count(l, ToLower(s)) = IF HasSection(i, s) THEN 1 ELSE 0
          /\ \A n \in 1..Len(l) : HasSection(i, l[n]) /\ Count(l, l[n]) = 1
    /\ \A s \in SecNames : \A l \in Keys(i, s) :
          /\ \A k \in KeyNames : Count(l, ToLower(k)) = IF Get(i, s, k).ok THEN 1 ELSE 0
          /\ \A n \in 1..Len(l) : Get(i, s, l[n]).ok /\ Count(l, l[n]) = 1
          /\ ~HasSection(i, s) => l = <<>>

\* after an Unset the Document has one section, which has two keys and is
\* asked for under a case variant of its name, and another section is absent
C14_Witness ==
    /\ op = "Unset"
    /\ Cardinality(DOMAIN i) = 1
    /\ \E s \in DOMAIN i : Cardinality(DOMAIN i[s]) = 2
    /\ \E s \in SecNames : ~HasSection(i, s)
    /\ \E s \in SecNames : s \notin DOMAIN i /\ HasSection(i, s)

----------------------------------------------------------------------------
(* C15: a successful ReadFrom returns the number of bytes of its input,    *)
(* with or without a final line feed and for LF as for CR LF line ends,    *)
(* and a successful WriteTo returns the length of the text it wrote        *)
C15_ByteCounts ==
    /\ pc = "parsed" /\ ret.err = ErrNone => ret.n = Len(src)
    /\ pc = "written" => ret.n = Len(buf)

----------------------------------------------------------------------------
\* the number of backslashes that stand directly before position p of t
RECURSIVE Run(_, _)
Run(t, p) == IF p > 1 /\ t[p - 1] = BS THEN 1 + Run(t, p - 1) ELSE 0

\* position p of t follows a backslash that begins an escape
Escaped(t, p) == Run(t, p) % 2 = 1

\* what the character c decodes to after a backslash, between quotes q
Decoded(c, q) ==
    IF c = "n" THEN <<LF>>
    ELSE IF c = "r" THEN <<CR>>
    ELSE IF c = "t" THEN <<TAB>>
    ELSE IF c = BS THEN <<BS>>
    ELSE IF c = q THEN <<q>>
    ELSE <<BS, c>>

\* what position p of the text t between quotes q contributes to the value
Piece(t, p, q) ==
    IF Escaped(t, p) THEN Decoded(t[p], q)
    ELSE IF t[p] = BS THEN (IF p = Len(t) THEN <<BS>> ELSE <<>>)
    ELSE <<t[p]>>

RECURSIVE Pieces(_, _, _)
Pieces(t, p, q) == IF p > Len(t) THEN <<>> ELSE Piece(t, p, q) \o Pieces(t, p + 1, q)

(* C16: the value stored for a line a=<raw> is raw itself when raw is not  *)
(* enclosed in a pair of equal quote characters; otherwise it is the text  *)
(* between the quotes with each backslash that begins an escape removed    *)
(* and the character after it decoded: n, r, t and backslash to newline,   *)
(* carriage return, tab and backslash, the enclosing quote to itself, and  *)
(* any other character, the other quote included, to backslash plus that   *)
(* character; a backslash that begins an escape at the end of the text is  *)
(* kept as one backslash                                                   *)
C16_EscapeDecoding ==
    pc = "parsed" =>
        LET raw   == Slice(src, 3, Len(src))
            inner == Slice(raw, 2, Len(raw) - 1)
        IN  /\ ret.err = ErrNone
            /\ Entries(i) = {<<root, <<"a">>>>}
            /\ i[root][<<"a">>] =
                  IF Len(raw) >= 2 /\ raw[1] \in {DQ, SQ} /\ raw[Len(raw)] = raw[1]
                  THEN Pieces(inner, 1, raw[1])
                  ELSE raw

\* the line a="\'\" was parsed: the escaped single quote, which is not the
\* enclosing quote, and the backslash at the end are kept as they are
C16_Witness ==
    /\ pc = "parsed"
    /\ src = <<"a", EQ, DQ, BS, SQ, BS, DQ>>
    /\ i[root][<<"a">>] = <<BS, SQ, BS>>

----------------------------------------------------------------------------
\* how the serializer writes one character of a quoted value
Escaped17(c) ==
    IF c = DQ THEN <<BS, DQ>>
    ELSE IF c = BS THEN <<BS, BS>>
    ELSE IF c = LF THEN <<BS, "n">>
    ELSE IF c = CR THEN <<BS, "r">>
    ELSE IF c = TAB THEN <<BS, "t">>
    ELSE <<c>>

RECURSIVE EscapedAll(_)
EscapedAll(v) == IF v = <<>> THEN <<>> ELSE Escaped17(Head(v)) \o EscapedAll(Tail(v))

\* the value v as written when the characters of special call for quotes
Shown(v, special) ==
    IF \E n \in 1..Len(v) : v[n] \in special
    THEN <<DQ>> \o EscapedAll(v) \o <<DQ>>
    ELSE v

\* the text of a Document of the one entry (s, k) whose value is written as shown
OneEntryText(s, k, shown) ==
    (IF s = root THEN <<>> ELSE <<"[">> \o s \o <<"]", LF>>)
       \o k \o <<EQ>> \o shown \o <<LF, LF>>

\* one Set call was made and the Document written
OneWritten == pc = "written" /\ DOMAIN i # {}

(* C17: the serializer writes a value in double quotes, with '"',          *)
(* backslash, newline, carriage return and tab escaped, exactly when the   *)
(* value contains a space, tab, newline, carriage return, double quote,    *)
(* single quote, '=', ';', '#', '[' or ']'; every other value, a value     *)
(* whose only special character is a backslash included, is written bare   *)
(* and unchanged; the key is written as stored, never quoted               *)
C17_QuotedWhenSpecial ==
    OneWritten =>
        buf = OneEntryText(ToLower(section), ToLower(key),
                 Shown(value, {SP, TAB, LF, CR, DQ, SQ, EQ, ";", "#", "[", "]"}))

\* a value that is one backslash was written bare, and not doubled
C17_Witness ==
    /\ OneWritten
    /\ value = <<BS>>
    /\ buf = <<"[", "s", "]", LF, "k", EQ, BS, LF, LF>>

\* C17 as stated: a backslash too calls for quotes, so that a value whose only
\* special character is a backslash is written quoted with the backslash doubled
C17_QuotedWhenBackslash ==
    OneWritten =>
        buf = OneEntryText(ToLower(section), ToLower(key),
                 Shown(value, {SP, TAB, LF, CR, DQ, SQ, BS, EQ, ";", "#", "[", "]"}))

----------------------------------------------------------------------------
(* C19: for a Document made by a Set call with any section and key string, *)
(* the text WriteTo produces is parsed by ReadFrom without error and gives *)
(* the (section, key) pairs of the Document                                *)
C19_NamesRoundTrip ==
    pc = "read" => ret.err = ErrNone /\ Entries(i2) = Entries(i)

----------------------------------------------------------------------------
(* C18: a parse merges into the Document by key: after each ReadFrom call  *)
(* the entries are those held before the call and those its key-value      *)
(* lines assign to; an entry assigned to holds the value of the last line  *)
(* that assigns to its normalized key in its section, also when the        *)
(* section's header occurs several times or the entry came from an earlier *)
(* ReadFrom call; and every other entry keeps its value                    *)
C18_LastWins ==
    pc \in {"parsed", "again"} =>
        LET lines == ScanLines(src)
        IN  /\ ret.err = ErrNone
            /\ Entries(i) = Entries(pre) \cup Targets(lines, Len(lines))
            /\ \A e \in Entries(i) :
                  LET hits == Hits(lines, Len(lines), e[1], e[2])
                  IN  GetExact(i, e[1], e[2]) =
                         IF hits = {} THEN GetExact(pre, e[1], e[2])
                         ELSE Found(LineRawValue(lines[MaxOf(hits)]))

\* a second call parsed the line K=W after a first call had stored v for key
\* k of section s: the second call began in section root again, overwrote key
\* k of root, and left key k of section s (from the first call) and key j of
\* section s (from a Set) as they were
C18_Witness ==
    /\ pc = "again"
    /\ src = Join(<< <<"K", "=", "W">> >>)
    /\ GetExact(pre, root, <<"k">>) = Found(PreVal)
    /\ GetExact(i, root, <<"k">>) = Found(<<"W">>)
    /\ GetExact(i, <<"s">>, <<"k">>) = Found(<<"v">>)
    /\ GetExact(i, <<"s">>, <<"j">>) = Found(PreVal)
    /\ pre[<<"s">>] = i[<<"s">>]

----------------------------------------------------------------------------
\* caller p has entered a wrapper method and waits for its lock
Waiting(p) == th[p].pc \in {"wait", "pend"}

\* caller p is in a call and can take its next step
CanStep(p) ==
    \/ InCS(p)
    \/ th[p].pc = "wait" /\ th[p].call.op \in Exclusive /\ LockReady(mu)
    \/ th[p].pc = "wait" /\ th[p].call.op \notin Exclusive /\ RLockReady(mu)
    \/ th[p].pc = "pend" /\ Drained(mu)

\* the lock is held by the callers that are inside a wrapper method, and by
\* no caller that has returned
HeldInsideOnly ==
    /\ mu.r = {p \in Callers : InCS(p) /\ th[p].call.op \notin Exclusive}
    /\ mu.w = {p \in Callers :
                  th[p].pc \in {"pend", "cs", "mid", "ret"} /\ th[p].call.op \in Exclusive}

(* C20: a wrapper method releases its lock however it returns, a ReadFrom  *)
(* that returns a parse or stream error and a WriteTo that returns a write *)
(* error included: at all times the lock is held only by callers inside a  *)
(* method, and when some caller waits some caller in a call can step (no   *)
(* deadlock); and, the methods that hold the lock running on, every caller *)
(* that waits for the lock eventually acquires it                          *)
C20_LockReleased ==
    /\ [](HeldInsideOnly /\ ((\E p \in Callers : Waiting(p)) => \E q \in Callers : CanStep(q)))
    /\ \A p \in Callers : Waiting(p) ~> InCS(p)

\* a ReadFrom is returning a parse error and a WriteTo a write error (each
\* still holds its lock or waits, its deferred unlock to run) while a third
\* caller waits for the lock in Set
C20_Witness ==
    \E p, q, r \in Callers :
       /\ th[p].pc = "ret" /\ th[p].call.op = "ReadFrom" /\ th[p].res.err = ErrMissingEq
       /\ th[q].pc = "wait" /\ th[q].call.op = "WriteTo" /\ th[q].call.fails
       /\ th[r].pc = "wait" /\ th[r].call.op = "Set"

----------------------------------------------------------------------------
\* caller p is inside a load that has not returned
Loading(p) == th[p].pc = "cs" /\ th[p].call.op = "ReadFrom"

(* C21: a load through IniSafe is atomic for the other callers: while a    *)
(* ReadFrom merges its lines no other call is inside its critical section; *)
(* the Document a Get, HasSection, Sections, Keys or WriteTo reads, and    *)
(* what it returns, are those of the Document made by the calls that       *)
(* acquired the lock before it, each load taken whole; and a load that has *)
(* returned, with or without error, leaves the Document and the error that *)
(* the whole parse of its text gives on the Document it began with (for a  *)
(* failed load, the lines above the rejected one merged)                   *)
C21_LoadAtomic ==
    /\ \A p \in Callers : Loading(p) => \A q \in Callers \ {p} : ~InCS(q)
    /\ \A p \in Callers :
          th[p].pc = "ret" /\ th[p].call.op \in ReadOps
             => /\ th[p].loc = th[p].seen
                /\ th[p].res \in Results(th[p].seen, th[p].call)
    /\ \A p \in Callers :
          th[p].pc = "ret" /\ th[p].call.op = "ReadFrom"
             => LET whole == ReadFrom(th[p].seen, th[p].call.value)
                IN  i = whole.doc /\ th[p].res.err = whole.err

\* a load has merged the first of the two keys of its text into an empty
\* Document and not yet the second, while a second caller waits in Keys and a
\* third in WriteTo
C21_Witness ==
    \E p, q, r \in Callers :
       /\ Loading(p) /\ th[p].at = 2
       /\ th[p].seen = New
       /\ GetExact(i, SafeSec, <<"k">>).ok
       /\ ~GetExact(i, SafeSec, <<"j">>).ok
       /\ th[q].pc = "wait" /\ th[q].call.op = "Keys"
       /\ th[r].pc = "wait" /\ th[r].call.op = "WriteTo"

====
